---- MODULE Spec2Model ----
(***************************************************************************)
(* Model of streamitTest.py: the ComfyUI server monitor.                   *)
(*                                                                         *)
(* update_data(servers) calls get_all_server_data(servers), which runs one *)
(* get_server_data coroutine per address under asyncio.gather, and then    *)
(* renders every element of the returned list.                             *)
(*                                                                         *)
(* Encoding of Python values:                                              *)
(*   - a str is a sequence of one-character strings (so that `in`, split,  *)
(*     slicing and strip can be computed);                                 *)
(*   - a parsed JSON value is a tagged record: [num |-> n], [str |-> s],   *)
(*     [list |-> seq], [obj |-> function from keys to JSON values];        *)
(*   - a raised exception is [exc |-> class, text |-> str(e)];             *)
(*   - None is [type |-> "NoneType"];                                      *)
(*   - a float rounded to 2 decimals is the integer number of hundredths.  *)
(***************************************************************************)
EXTENDS Integers, Sequences, FiniteSets, TLC

VARIABLES servers, phase, pc, sentStats, sentQueue, resp1, resp2,
          locals, result, done_order, errors, server_data, idx, rendered,
          warned

vars == <<servers, phase, pc, sentStats, sentQueue, resp1, resp2,
          locals, result, done_order, errors, server_data, idx, rendered,
          warned>>

----------------------------------------------------------------------------
(* Bounds of the model.                                                    *)

\* Largest number of addresses passed to update_data.
MaxServers == 2

----------------------------------------------------------------------------
(* Python str operations, on sequences of characters.                      *)

Min(S) == CHOOSE x \in S : \A y \in S : x <= y

Max(S) == CHOOSE x \in S : \A y \in S : y <= x

\* The start positions of the occurrences of sub in s.
Occ(s, sub) ==
    { i \in 1..(Len(s) - Len(sub) + 1) : SubSeq(s, i, i + Len(sub) - 1) = sub }

\* sub in s
StrContains(s, sub) == Occ(s, sub) # {}

\* s.split(sep)[1], for s that contains sep: the text between the first
\* occurrence of sep and the next one after it (or the end of s).
SplitSecond(s, sep) ==
    LET first == Min(Occ(s, sep))
        rest  == SubSeq(s, first + Len(sep), Len(s))
    IN  IF StrContains(rest, sep)
        THEN SubSeq(rest, 1, Min(Occ(rest, sep)) - 1)
        ELSE rest

\* s[:n]
Prefix(s, n) == SubSeq(s, 1, IF Len(s) < n THEN Len(s) ELSE n)

\* s.strip()
StrStrip(s) ==
    LET keep == { i \in 1..Len(s) : s[i] # " " }
    IN  IF keep = {} THEN <<>> ELSE SubSeq(s, Min(keep), Max(keep))

\* s.split(":")[-1]: the text after the last ":" (all of s when it has none).
LastField(s) ==
    LET colons == { i \in 1..Len(s) : s[i] = ":" }
    IN  IF colons = {} THEN s ELSE SubSeq(s, Max(colons) + 1, Len(s))

RTX == <<"R", "T", "X">>

RXT == <<"R", "X", "T">>

\* The length of the slice taken after "RTX" / "RXT".
LabelLen == 6

\* device_name of lines 31-36.
DeviceName(device_name_full) ==
    IF StrContains(device_name_full, RTX)
    THEN StrStrip(Prefix(SplitSecond(device_name_full, RTX), LabelLen))
    ELSE IF StrContains(device_name_full, RXT)
    THEN StrStrip(Prefix(SplitSecond(device_name_full, RXT), LabelLen))
    ELSE device_name_full

\* f"RTX {device_name}" of line 69.
DeviceLabel(device_name) == RTX \o <<" ">> \o device_name

----------------------------------------------------------------------------
(* round(x / (1024 ** 3), 2), in hundredths of a GiB, for 0 <= x < 2^31.   *)
(* x / 2^30 is exact in a float and round() rounds its exact value half to *)
(* even.  x * 100 / 2^30 = 100 q + 25 r / 2^28 with x = q 2^30 + r; the    *)
(* product 25 r is formed in two 14-bit halves to stay within 32 bits.     *)

GiB == 1024 * 1024 * 1024

K14 == 128 * 128

HalfUlp == (K14 * K14) \div 2

RoundGiB(x) ==
    LET q  == x \div GiB
        r  == x % GiB
        r1 == r \div K14
        r0 == r % K14
        b1 == (25 * r0) \div K14
        b0 == (25 * r0) % K14
        m  == 25 * r1 + b1
        m1 == m \div K14
        f  == (m % K14) * K14 + b0       \* fractional part, in 1/2^28
        lo == 100 * q + m1
    IN  IF f > HalfUlp THEN lo + 1
        ELSE IF f < HalfUlp THEN lo
        ELSE IF lo % 2 = 0 THEN lo ELSE lo + 1

----------------------------------------------------------------------------
(* Parsed JSON values and the Python operations the code applies to them.  *)

JNum(n) == [num |-> n]

JStr(s) == [str |-> s]

JList(l) == [list |-> l]

JObj(o) == [obj |-> o]

EmptyObj == [k \in {} |-> 0]

Exc(class, text) == [exc |-> class, text |-> text]

IsExc(v) == "exc" \in DOMAIN v

\* v[k] for a str key k.
Get(v, k) ==
    IF IsExc(v) THEN v
    ELSE IF "obj" \in DOMAIN v
    THEN IF k \in DOMAIN v.obj THEN v.obj[k] ELSE Exc("KeyError", k)
    ELSE Exc("TypeError", "indices must be integers")

\* v[n] for an int index n >= 0.
At(v, n) ==
    IF IsExc(v) THEN v
    ELSE IF "list" \in DOMAIN v
    THEN IF n < Len(v.list) THEN v.list[n + 1]
         ELSE Exc("IndexError", "list index out of range")
    ELSE IF "str" \in DOMAIN v
    THEN IF n < Len(v.str) THEN JStr(<<v.str[n + 1]>>)
         ELSE Exc("IndexError", "string index out of range")
    ELSE IF "obj" \in DOMAIN v THEN Exc("KeyError", "int")
    ELSE Exc("TypeError", "not subscriptable")

\* v[-1]
AtLast(v) ==
    IF IsExc(v) THEN v
    ELSE IF "list" \in DOMAIN v
    THEN IF Len(v.list) > 0 THEN v.list[Len(v.list)]
         ELSE Exc("IndexError", "list index out of range")
    ELSE IF "str" \in DOMAIN v
    THEN IF Len(v.str) > 0 THEN JStr(<<v.str[Len(v.str)]>>)
         ELSE Exc("IndexError", "string index out of range")
    ELSE IF "obj" \in DOMAIN v THEN Exc("KeyError", "int")
    ELSE Exc("TypeError", "not subscriptable")

\* len(v): [num |-> n] or an exception.
PyLen(v) ==
    IF IsExc(v) THEN v
    ELSE IF "list" \in DOMAIN v THEN JNum(Len(v.list))
    ELSE IF "str" \in DOMAIN v THEN JNum(Len(v.str))
    ELSE IF "obj" \in DOMAIN v THEN JNum(Cardinality(DOMAIN v.obj))
    ELSE Exc("TypeError", "has no len()")

\* v.get(k, default) for a dict v.
GetOr(v, k, default) ==
    IF IsExc(v) THEN v
    ELSE IF "obj" \in DOMAIN v
    THEN IF k \in DOMAIN v.obj THEN v.obj[k] ELSE default
    ELSE Exc("AttributeError", "no attribute get")

\* k in v.  Of a dict it is key membership and of a number a TypeError; the
\* payloads drawn hold no list or str there, for which it is taken as False.
PyIn(k, v) ==
    IF IsExc(v) THEN v
    ELSE IF "obj" \in DOMAIN v THEN [bool |-> k \in DOMAIN v.obj]
    ELSE IF "num" \in DOMAIN v THEN Exc("TypeError", "not iterable")
    ELSE [bool |-> FALSE]

\* x / (1024 ** 3) rounded: a number is needed.
Gigabytes(v) ==
    IF IsExc(v) THEN v
    ELSE IF "num" \in DOMAIN v THEN JNum(RoundGiB(v.num))
    ELSE Exc("TypeError", "unsupported operand type(s) for /")

----------------------------------------------------------------------------
(* HTTP responses and the two halves of get_server_data.                   *)

None == [type |-> "NoneType"]

IsNone(v) == "type" \in DOMAIN v

Http(status, parseable, body) ==
    [kind |-> "http", status |-> status, parseable |-> parseable, body |-> body]

NetError(e) == [kind |-> "error", exc |-> e]

NoResp == [kind |-> "none"]

NoLocals == [bound |-> FALSE]

NoExc == [exc |-> "none", text |-> ""]

\* What a stretch of the coroutine ends in: it goes on to the next request
\* ("continue", with the local variables bound so far), returns a value after
\* showing the messages ("return"), or raises ("raise").
Continue(loc) ==
    [tag |-> "continue", value |-> None, messages |-> <<>>, locals |-> loc,
     exc |-> NoExc]

Return(v, msgs) ==
    [tag |-> "return", value |-> v, messages |-> msgs, locals |-> NoLocals,
     exc |-> NoExc]

Raise(e) ==
    [tag |-> "raise", value |-> None, messages |-> <<>>, locals |-> NoLocals,
     exc |-> e]

\* await resp.json()
Json(resp) ==
    IF resp.parseable THEN resp.body
    ELSE Exc("JSONDecodeError", "Expecting value")

\* Lines 23-39: the /system_stats response.  The payloads drawn give the
\* device name as a str or a number.
StatsOutcome(server, resp) ==
    IF resp.kind = "error" THEN Raise(resp.exc)
    ELSE IF resp.status # 200
    THEN Return(None, << [fmt |-> "Failed to fetch system stats from",
                         server |-> server, status |-> resp.status] >>)
    ELSE
    LET stats_data == Json(resp)
        device == At(Get(stats_data, "devices"), 0)
        vram_total == Gigabytes(Get(device, "vram_total"))
        vram_free == Gigabytes(Get(device, "vram_free"))
        device_name_full == Get(device, "name")
    IN  IF IsExc(vram_total) THEN Raise(vram_total)
        ELSE IF IsExc(vram_free) THEN Raise(vram_free)
        ELSE IF IsExc(device_name_full) THEN Raise(device_name_full)
        ELSE IF "str" \notin DOMAIN device_name_full
        THEN Raise(Exc("TypeError", "argument is not iterable"))
        ELSE Continue([bound |-> TRUE,
                       vram_total |-> vram_total.num,
                       vram_free |-> vram_free.num,
                       device_name |-> DeviceName(device_name_full.str),
                       gpu_temperature |->
                           GetOr(device, "gpu_temperature",
                                 JStr(<<"N", "/", "A">>))])

\* Lines 48-52: current_task and workflow of the first running entry.
\* [current_task, workflow], or the exception raised on the way.
TaskInfo(queue_data, queue_running) ==
    LET third == At(At(Get(queue_data, "queue_running"), 0), 2)
        has == PyIn("extra_pnginfo", third)
        wf == Get(Get(third, "extra_pnginfo"), "workflow")
        task == At(Get(AtLast(Get(wf, "nodes")), "widgets_values"), 0)
        empty == [current_task |-> JStr(<<>>), workflow |-> JStr(<<>>)]
    IN  IF queue_running > 0
        THEN IF IsExc(has) THEN has
             ELSE IF has.bool
             THEN IF IsExc(task) THEN task
                  ELSE [current_task |-> task, workflow |-> wf]
             ELSE empty
        ELSE empty

\* A variant of lines 42-44 that returns what the first request gave.
QueueNot200Partial(server, loc, resp) ==
    Return([port |-> LastField(server),
            vram_total |-> loc.vram_total,
            vram_free |-> loc.vram_free,
            status |-> "Offline",
            device_name |-> DeviceLabel(loc.device_name),
            gpu_temperature |-> loc.gpu_temperature],
           << [fmt |-> "Failed to fetch queue data from",
               server |-> server, status |-> resp.status] >>)

\* Lines 42-44: a /queue answer whose status is not 200, with the local
\* variables of the first request (loc) in scope.
QueueNot200(server, loc, resp) ==
    Return(None, << [fmt |-> "Failed to fetch queue data from",
                    server |-> server, status |-> resp.status] >>)

\* Lines 41-71: the /queue response, and the dict returned.
QueueOutcome(server, loc, resp, clock) ==
    IF resp.kind = "error" THEN Raise(resp.exc)
    ELSE IF resp.status # 200 THEN QueueNot200(server, loc, resp)
    ELSE
    LET queue_data == Json(resp)
        queue_running == PyLen(Get(queue_data, "queue_running"))
        queue_pending == PyLen(Get(queue_data, "queue_pending"))
    IN  IF IsExc(queue_running) THEN Raise(queue_running)
        ELSE IF IsExc(queue_pending) THEN Raise(queue_pending)
        ELSE
        LET info == TaskInfo(queue_data, queue_running.num)
        IN  IF IsExc(info) THEN Raise(info)
            ELSE IF ~loc.bound
            THEN Raise(Exc("UnboundLocalError", "referenced before assignment"))
            ELSE Return([port |-> LastField(server),
                         vram_total |-> loc.vram_total,
                         vram_free |-> loc.vram_free,
                         queue_running |-> queue_running.num,
                         queue_pending |-> queue_pending.num,
                         current_task |-> info.current_task,
                         workflow |-> info.workflow,
                         status |-> IF resp.status = 200 THEN "Online"
                                    ELSE "Offline",
                         last_update |-> clock,
                         device_name |-> DeviceLabel(loc.device_name),
                         gpu_temperature |-> loc.gpu_temperature],
                        <<>>)

\* Lines 72-74: the message shown and the value returned for exception e.
ExceptOutcome(server, e) ==
    Return(None, << [fmt |-> "Error connecting to server",
                    server |-> server, text |-> e.text] >>)

\* A variant of line 72: `except aiohttp.ClientError`.
CatchesClientErrorOnly(e) == e.exc \in {"ClientConnectorError"}

\* Line 72: `except Exception` catches every exception class raised above
\* (asyncio.TimeoutError and aiohttp.ClientError included).
Catches(e) ==
    e.exc \in {"ClientConnectorError", "TimeoutError", "JSONDecodeError",
               "KeyError", "IndexError", "TypeError", "AttributeError",
               "UnboundLocalError"}

\* A variant of lines 26, 44, 74: the coroutine starts over after a failure.
PcRetry == "created"

\* A variant of lines 26, 44, 74: the coroutine goes on to the next request.
PcContinue == "send_queue"

\* Lines 26, 44, 74: `return None` ends the coroutine.
PcAfterFailure == "done"

\* A variant of lines 79-80: the results in the order of completion.
GatherByCompletion(res, order) == [k \in 1..Len(order) |-> res[order[k]]]

\* Lines 79-80: gather returns the results in the order of the awaitables.
Gather(res, order) == res

----------------------------------------------------------------------------
(* The inputs drawn: addresses, and what a server may answer.              *)

\* The addresses are distinct ("host:port" lines of the text area) and the
\* code treats them alike, so the lists drawn are the prefixes of one list.
AddressPool ==
    << <<"a", ":", "8", "1">>, <<"b", ":", "8", "2">>, <<"c">>,
       <<"d", ":", "e", ":", "8", "3">> >>

NameRTX == <<"G", " ", "R", "T", "X", " ", "3", "0", "9", "0", " ", "T", "i">>

NameRXT == <<"R", "X", "T", " ", "4", "0", "7", "0">>

NameOther == <<"T", "e", "s", "l", "a", " ", "T", "4">>

DeviceList(devs) == JObj([devices |-> JList(devs)])

StatsBodies ==
    { DeviceList(<< JObj([vram_total |-> JNum(3 * (GiB \div 2)),
                         vram_free |-> JNum(GiB \div 8),
                         name |-> JStr(NameRTX),
                         gpu_temperature |-> JNum(55)]) >>),
      DeviceList(<< JObj([vram_total |-> JNum(GiB),
                         vram_free |-> JNum(GiB \div 2),
                         name |-> JStr(NameRXT)]) >>),
      DeviceList(<< JObj([vram_total |-> JNum(GiB),
                         vram_free |-> JNum(GiB),
                         name |-> JStr(NameOther),
                         gpu_temperature |-> JNum(40)]) >>),
      DeviceList(<<>>) }

StatsResponses ==
    { Http(200, TRUE, b) : b \in StatsBodies }
    \cup { Http(200, FALSE, JObj(EmptyObj)),
           Http(500, TRUE, JObj(EmptyObj)),
           NetError(Exc("ClientConnectorError", "Cannot connect to host")) }

\* A queue entry: [number, prompt id, prompt-extra object].
Entry(extra) == JList(<<JNum(0), JStr(<<"p">>), JObj(extra)>>)

Node(label) == JObj([widgets_values |-> JList(<<JStr(label)>>)])

Workflow(nodes) == JObj([nodes |-> JList(nodes)])

Queue(running, pending) ==
    JObj([queue_running |-> JList(running), queue_pending |-> JList(pending)])

QueueBodies ==
    { Queue(<<>>, <<>>),
      Queue(<< Entry([extra_pnginfo |->
                         JObj([workflow |->
                                  Workflow(<<Node(<<"l">>), Node(<<"u", "p">>)>>)])]) >>,
            << Entry(EmptyObj) >>),
      Queue(<< Entry(EmptyObj) >>, <<>>),
      Queue(<< Entry([extra_pnginfo |-> JObj(EmptyObj)]) >>, <<>>),
      JObj([queue_running |-> JList(<<>>)]) }

QueueResponses ==
    { Http(200, TRUE, b) : b \in QueueBodies }
    \cup { Http(200, FALSE, JObj(EmptyObj)),
           Http(503, TRUE, JObj(EmptyObj)),
           NetError(Exc("ClientConnectorError", "Cannot connect to host")) }

\* The request did not complete within the session's total timeout.
TimedOut == NetError(Exc("TimeoutError", ""))

----------------------------------------------------------------------------
(* The state machine.                                                      *)

Tasks == 1..Len(servers)

\* update_data(servers) has called get_all_server_data, which has built one
\* coroutine per address (line 79).
Init ==
    /\ servers \in { SubSeq(AddressPool, 1, k) :
                       k \in 0..Min({MaxServers, Len(AddressPool)}) }
    /\ phase = "poll"
    /\ pc = [i \in Tasks |-> "created"]
    /\ sentStats = [i \in Tasks |-> 0]
    /\ sentQueue = [i \in Tasks |-> 0]
    /\ resp1 = [i \in Tasks |-> NoResp]
    /\ resp2 = [i \in Tasks |-> NoResp]
    /\ locals = [i \in Tasks |-> NoLocals]
    /\ result = [i \in Tasks |-> None]
    /\ done_order = <<>>
    /\ errors = <<>>
    /\ server_data = <<>>
    /\ idx = 1
    /\ rendered = <<>>
    /\ warned = FALSE

\* datetime.now() of line 55, as a logical time: the number of coroutines
\* that have finished before.
Clock == Len(done_order)

\* The coroutine of task i ends a stretch with outcome o: an exception goes
\* to the except clause; one it does not catch leaves gather and asyncio.run.
Finish(i, o) ==
    LET caught == o.tag = "raise" /\ Catches(o.exc)
        out == IF caught THEN ExceptOutcome(servers[i], o.exc) ELSE o
    IN  IF out.tag = "continue"
        THEN /\ locals' = [locals EXCEPT ![i] = out.locals]
             /\ pc' = [pc EXCEPT ![i] = "send_queue"]
             /\ UNCHANGED <<phase, result, done_order, errors>>
        ELSE IF out.tag = "return"
        THEN /\ result' = [result EXCEPT ![i] = out.value]
             /\ errors' = errors \o out.messages
             /\ pc' = [pc EXCEPT ![i] =
                          IF IsNone(out.value) THEN PcAfterFailure ELSE "done"]
             /\ done_order' = Append(done_order, i)
             /\ UNCHANGED <<phase, locals>>
        ELSE /\ phase' = "raised"
             /\ pc' = [pc EXCEPT ![i] = "done"]
             /\ UNCHANGED <<locals, result, done_order, errors>>

\* Line 23: the coroutine starts and issues GET /system_stats.
Start(i) ==
    /\ phase = "poll"
    /\ i \in Tasks
    /\ pc[i] = "created"
    /\ sentStats' = [sentStats EXCEPT ![i] = @ + 1]
    /\ pc' = [pc EXCEPT ![i] = "await_stats"]
    /\ UNCHANGED <<servers, phase, sentQueue, resp1, resp2, locals,
                   result, done_order, errors, server_data, idx, rendered,
                   warned>>

\* Lines 23-39: the server answers the /system_stats request with r, or the
\* connection fails.  A server that never answers never takes this step.
RecvStats(i) ==
    /\ phase = "poll"
    /\ i \in Tasks
    /\ pc[i] = "await_stats"
    /\ \E r \in StatsResponses :
          /\ resp1' = [resp1 EXCEPT ![i] = r]
          /\ Finish(i, StatsOutcome(servers[i], r))
    /\ UNCHANGED <<servers, sentStats, sentQueue, resp2, server_data,
                   idx, rendered, warned>>

\* Line 41: the coroutine issues GET /queue.
SendQueue(i) ==
    /\ phase = "poll"
    /\ i \in Tasks
    /\ pc[i] = "send_queue"
    /\ sentQueue' = [sentQueue EXCEPT ![i] = @ + 1]
    /\ pc' = [pc EXCEPT ![i] = "await_queue"]
    /\ UNCHANGED <<servers, phase, sentStats, resp1, resp2, locals,
                   result, done_order, errors, server_data, idx, rendered,
                   warned>>

\* Lines 41-71: the server answers the /queue request with r, or the
\* connection fails.  A server that never answers never takes this step.
RecvQueue(i) ==
    /\ phase = "poll"
    /\ i \in Tasks
    /\ pc[i] = "await_queue"
    /\ \E r \in QueueResponses :
          /\ resp2' = [resp2 EXCEPT ![i] = r]
          /\ Finish(i, QueueOutcome(servers[i], locals[i], r, Clock))
    /\ UNCHANGED <<servers, sentStats, sentQueue, resp1, server_data,
                   idx, rendered, warned>>

\* Line 78: the session is built with aiohttp's default ClientTimeout, whose
\* total deadline ends a request still in flight with asyncio.TimeoutError.
Timeout(i) ==
    /\ phase = "poll"
    /\ i \in Tasks
    /\ IF pc[i] = "await_stats"
       THEN /\ resp1' = [resp1 EXCEPT ![i] = TimedOut]
            /\ Finish(i, StatsOutcome(servers[i], TimedOut))
            /\ UNCHANGED resp2
       ELSE /\ pc[i] = "await_queue"
            /\ resp2' = [resp2 EXCEPT ![i] = TimedOut]
            /\ Finish(i, QueueOutcome(servers[i], locals[i], TimedOut, Clock))
            /\ UNCHANGED resp1
    /\ UNCHANGED <<servers, sentStats, sentQueue, server_data, idx,
                   rendered, warned>>

\* Lines 80-82 and 131: every coroutine has finished; gather's list is
\* returned to update_data.
PollReturn ==
    /\ phase = "poll"
    /\ \A i \in Tasks : pc[i] = "done"
    /\ server_data' = Gather(result, done_order)
    /\ phase' = "update"
    /\ UNCHANGED <<servers, pc, sentStats, sentQueue, resp1, resp2,
                   locals, result, done_order, errors, idx, rendered, warned>>

\* Lines 133, 137-138: an empty list is falsy.
NoData ==
    /\ phase = "update"
    /\ server_data = <<>>
    /\ warned' = TRUE
    /\ phase' = "done"
    /\ UNCHANGED <<servers, pc, sentStats, sentQueue, resp1, resp2,
                   locals, result, done_order, errors, server_data, idx,
                   rendered>>

\* Lines 134-136: one turn of the loop.  data['port'] of None raises
\* TypeError, which nothing catches.
Render ==
    /\ phase = "update"
    /\ idx <= Len(server_data)
    /\ LET data == server_data[idx]
       IN  IF "port" \in DOMAIN data
           THEN /\ rendered' = Append(rendered, data)
                /\ idx' = idx + 1
                /\ phase' = IF idx = Len(server_data) THEN "done" ELSE "update"
           ELSE /\ phase' = "crashed"
                /\ UNCHANGED <<rendered, idx>>
    /\ UNCHANGED <<servers, pc, sentStats, sentQueue, resp1, resp2,
                   locals, result, done_order, errors, server_data, warned>>

Next ==
    \/ \E i \in 1..MaxServers :
          \/ Start(i)
          \/ RecvStats(i)
          \/ SendQueue(i)
          \/ RecvQueue(i)
          \/ Timeout(i)
    \/ PollReturn
    \/ NoData
    \/ Render

Spec == Init /\ [][Next]_vars

\* The event loop runs every coroutine that can run, the session's deadline
\* ends a request that is not answered, and gather resumes its caller.
FairSpec ==
    /\ Spec
    /\ \A i \in 1..MaxServers :
          /\ WF_vars(Start(i))
          /\ WF_vars(SendQueue(i))
          /\ WF_vars(Timeout(i))
    /\ WF_vars(PollReturn)

----------------------------------------------------------------------------
(* Vocabulary of the properties.                                           *)

\* get_all_server_data has returned its list to update_data.
Returned == phase \in {"update", "done", "crashed"}

\* v without its time of observation.
SansTime(v) == IF IsNone(v) THEN v ELSE [v EXCEPT !.last_update = 0]

\* What get_server_data gives for one server alone that answers r1 and r2.
Alone(server, r1, r2) ==
    LET a == StatsOutcome(server, r1)
        b == QueueOutcome(server, a.locals, r2, 0)
    IN  IF a.tag = "continue" /\ r2.kind # "none" /\ b.tag = "return"
        THEN b.value
        ELSE None

IsNumber(v) == ~IsExc(v) /\ "num" \in DOMAIN v

IsString(v) == ~IsExc(v) /\ "str" \in DOMAIN v

IsList(v) == ~IsExc(v) /\ "list" \in DOMAIN v

\* The answer to /system_stats is 200 with parseable JSON that holds the
\* required keys: a first device with vram_total, vram_free and name.
GoodStats(r) ==
    /\ r.kind = "http"
    /\ r.status = 200
    /\ r.parseable
    /\ LET device == At(Get(r.body, "devices"), 0)
       IN  /\ IsNumber(Get(device, "vram_total"))
           /\ IsNumber(Get(device, "vram_free"))
           /\ IsString(Get(device, "name"))

\* The answer to /queue is 200 with parseable JSON that holds the required
\* keys queue_running and queue_pending.
GoodQueue(r) ==
    /\ r.kind = "http"
    /\ r.status = 200
    /\ r.parseable
    /\ IsList(Get(r.body, "queue_running"))
    /\ IsList(Get(r.body, "queue_pending"))

\* The /queue request was made and failed: timeout, network error, non-200
\* status or malformed payload.
QueueFailed(r) == r.kind # "none" /\ ~GoodQueue(r)

\* The server answered both requests as the interface requires.
Reachable(i) == GoodStats(resp1[i]) /\ GoodQueue(resp2[i])

\* Some message shown names the server of task i: an attempt has failed.
Failed(i) == \E k \in 1..Len(errors) : errors[k].server = servers[i]

\* The n characters of s that follow the first occurrence of sub.
Following(s, sub, n) ==
    LET from == Min(Occ(s, sub)) + Len(sub)
    IN  SubSeq(s, from, Min({Len(s), from + n - 1}))

\* widgets_values[0] of the last workflow node of the first running entry,
\* or an exception when a level of the path is absent.
WorkflowLabel(body) ==
    At(Get(AtLast(Get(Get(Get(At(At(Get(body, "queue_running"), 0), 2),
                              "extra_pnginfo"), "workflow"), "nodes")),
           "widgets_values"), 0)

----------------------------------------------------------------------------
(* The properties.                                                         *)

\* C1: once get_all_server_data has returned, its list is as long as the
\* list of addresses and its i-th element is what the coroutine of the i-th
\* address returned, which is what that address's two answers normalise to,
\* whatever the order of completion (the empty list included).
C1_OrderPreserved ==
    Returned =>
        /\ Len(server_data) = Len(servers)
        /\ \A i \in Tasks :
              /\ server_data[i] = result[i]
              /\ SansTime(server_data[i])
                     = SansTime(Alone(servers[i], resp1[i], resp2[i]))

\* C1 witness: two servers, the second finished first, different results.
C1_Witness ==
    /\ Returned
    /\ Len(servers) = 2
    /\ done_order = <<2, 1>>
    /\ IsNone(server_data[1])
    /\ ~IsNone(server_data[2])

\* C2 (as claimed): the poll never raises, and its list holds one record per
\* server that answered both requests well and one None per other server;
\* each record is the one its server gives when polled alone.
C2_Claim ==
    /\ phase # "raised"
    /\ Returned =>
          /\ Cardinality({ i \in Tasks : ~IsNone(server_data[i]) })
                 = Cardinality({ i \in Tasks : Reachable(i) })
          /\ Cardinality({ i \in Tasks : IsNone(server_data[i]) })
                 = Cardinality({ i \in Tasks : ~Reachable(i) })
          /\ \A i \in Tasks :
                Reachable(i) =>
                    SansTime(server_data[i])
                        = SansTime(Alone(servers[i], resp1[i], resp2[i]))

\* C3: a server whose /system_stats step succeeded and whose /queue request
\* failed has the result None: nothing returned for it carries a VRAM,
\* device or temperature value.
C3_NoPartialRecord ==
    \A i \in Tasks :
        (locals[i].bound /\ QueueFailed(resp2[i])) =>
            /\ IsNone(result[i])
            /\ Returned =>
                  DOMAIN server_data[i]
                      \cap {"vram_total", "vram_free", "device_name",
                            "gpu_temperature"} = {}

\* C3 witness: the poll has returned and some server answered /system_stats
\* well and then timed out on /queue.
C3_Witness ==
    /\ Returned
    /\ \E i \in Tasks :
          /\ locals[i].bound
          /\ locals[i].vram_total > 0
          /\ resp2[i] = TimedOut

\* A request of task i ran into the session's deadline.
TimedOutTask(i) == resp1[i] = TimedOut \/ resp2[i] = TimedOut

C5_Claim ==
    \A i \in Tasks :
        (pc[i] = "done" /\ Reachable(i)) =>
            /\ ~IsNone(result[i])
            /\ IsExc(WorkflowLabel(resp2[i].body)) =>
                  /\ result[i].current_task = JStr(<<>>)
                  /\ result[i].workflow = JStr(<<>>)

\* C6 (as claimed): the device label is "RTX " and the trimmed 6 characters
\* after "RTX" (or "RXT") when the name holds it, and the name itself
\* otherwise.
C6_Claim ==
    \A i \in Tasks :
        (pc[i] = "done" /\ ~IsNone(result[i])) =>
            LET name == Get(At(Get(resp1[i].body, "devices"), 0), "name").str
            IN  result[i].device_name =
                    IF StrContains(name, RTX)
                    THEN RTX \o <<" ">> \o StrStrip(Following(name, RTX, 6))
                    ELSE IF StrContains(name, RXT)
                    THEN RTX \o <<" ">> \o StrStrip(Following(name, RXT, 6))
                    ELSE name

\* C7 (as claimed): the element returned for a server that failed is a
\* status of that address with an error reason set.
C7_Claim ==
    Returned =>
        \A i \in Tasks :
            Failed(i) =>
                /\ ~IsNone(server_data[i])
                /\ "port" \in DOMAIN server_data[i]
                /\ server_data[i].port = LastField(servers[i])
                /\ "error" \in DOMAIN server_data[i]

\* C8 (as claimed): when update_data ends after a poll with an unreachable
\* server, it has not aborted and has rendered every reachable server.
C8_Claim ==
    (/\ phase \in {"done", "crashed"}
     /\ \E i \in Tasks : IsNone(server_data[i])) =>
        /\ phase = "done"
        /\ \A i \in Tasks :
              ~IsNone(server_data[i]) =>
                  \E k \in 1..Len(rendered) : rendered[k] = server_data[i]

\* C9: no retries: a server gets at most one /system_stats and at most one
\* /queue request, and none at all once an attempt for it has failed.
C9_NoRetries ==
    /\ [](\A i \in Tasks : sentStats[i] <= 1 /\ sentQueue[i] <= 1)
    /\ [][\A i \in Tasks :
             Failed(i) =>
                 /\ sentStats'[i] = sentStats[i]
                 /\ sentQueue'[i] = sentQueue[i]]_vars

\* C9 witness: the poll has returned; one server failed on /system_stats
\* and another on /queue, each after a single request.
C9_Witness ==
    /\ Returned
    /\ \E i, j \in Tasks :
          /\ Failed(i)
          /\ sentStats[i] = 1
          /\ sentQueue[i] = 0
          /\ Failed(j)
          /\ sentStats[j] = 1
          /\ sentQueue[j] = 1

\* C10: a /queue request has been issued only to a server whose
\* /system_stats answer was received with status 200 and normalised without
\* error; a server whose /system_stats step failed gets no /queue request.
C10_QueueAfterStats ==
    \A i \in Tasks :
        /\ sentQueue[i] > 0 =>
              /\ sentStats[i] = 1
              /\ resp1[i].kind = "http"
              /\ resp1[i].status = 200
              /\ locals[i].bound
        /\ (resp1[i].kind # "none" /\ ~locals[i].bound) => sentQueue[i] = 0
        /\ pc[i] \in {"created", "await_stats"} => sentQueue[i] = 0

\* C10 witness: one server has its /queue request in flight after a good
\* /system_stats answer, and another one failed on /system_stats and is done.
C10_Witness ==
    \E i, j \in Tasks :
        /\ pc[i] = "await_queue"
        /\ sentQueue[i] = 1
        /\ GoodStats(resp1[i])
        /\ pc[j] = "done"
        /\ resp1[j].kind = "http"
        /\ resp1[j].status = 500
        /\ sentQueue[j] = 0

====
